---- MODULE Spec2Model ----
(***************************************************************************)
(* Model of tea5767.py: the controller object of a TEA5767 FM radio        *)
(* module (class tea5767), its 5-byte write and read transactions, the     *)
(* frequency conversions and the start / search / scan loops.              *)
(*                                                                         *)
(* Frequencies.  FMstation is a Python float that only ever holds a        *)
(* multiple of 0.1 MHz (calculateFrequency produces round(..)/10, scan     *)
(* adds +-0.1 to such a value, start assigns 95.5, scan assigns 87.5,      *)
(* 107.9 and 108).  The model holds it as an integer number of tenths of   *)
(* a MHz: 875 is 87.5 MHz.  For the crystal the constructor sets (32768)   *)
(* the integer formulas below give the same register values, the same      *)
(* station frequencies and the same band comparisons as the float code     *)
(* for every 14-bit register value and every station frequency the code    *)
(* can hold (checked by running the source over all of them).              *)
(*                                                                         *)
(* Transport.  bus.transaction(writing_bytes(..)) and                      *)
(* bus.transaction(reading(..)) are calls into the quick2wire library.     *)
(* writing_bytes builds a bytes object from its arguments, which raises    *)
(* ValueError when an argument is outside 0..255: such a write raises      *)
(* out of the operation and no transaction reaches the device.             *)
(***************************************************************************)
EXTENDS Integers, Sequences, FiniteSets, TLC

VARIABLES
    self,        \* the tea5767 object: its fields
    pc,          \* "idle" between public calls, or the loop a call is in
    op,          \* the public operation last called
    result,      \* how the last call ended ("" while none has ended)
    scan_i,      \* scan's local i: the sweep has stepped past a band edge
    fadd,        \* scan's local fadd, in tenths of a MHz
    telek,       \* the lines scan has written to telek.txt
    devMode,     \* how the device answers reads: "free" or "echo"
    devReg,      \* the device's frequency register: the last one written
    strong,      \* echo device: channels whose level ADC output is 5
    lastWrite,   \* the last write transaction, with the fields it encoded
    startFM,     \* FMstation when the current / last operation was called
    polls,       \* reads issued by the loop of the current operation
    tuned,       \* station frequencies the current scan has written
    retuned,     \* the current scan has written one of them twice
    calls,       \* public operations called since construction
    writes,      \* write transactions of the current / last operation
    bus          \* what the last step did on the bus, after the event before it

vars == <<self, pc, op, result, scan_i, fadd, telek, devMode, devReg,
          strong, lastWrite, startFM, polls, tuned, retuned, calls,
          writes, bus>>

----------------------------------------------------------------------------
(* Bounds of the model *)

\* polls is counted up to this value and then stays there
MaxPolls == 2

\* public operations called on one object
MaxCalls == 2

\* a free device reports a strong signal only while telek.txt is shorter
MaxLines == 2

\* writes is counted up to this value and then stays there
MaxWrites == 3

----------------------------------------------------------------------------
(* Program constants *)

BandLow == 875          \* 87.5 MHz
BandHigh == 1079        \* 107.9 MHz
ScanWrapHigh == 1080    \* 108 MHz: what scan assigns below the low edge
StartStation == 955     \* 95.5 MHz
StrongLevel == 4        \* scan records when levelADCoutput > 4

Band == BandLow..BandHigh
NumChannels == Cardinality(Band)

\* direction arguments of search: the integers of the code comment and the
\* strings the entry point forwards from the command line
SearchDirs == {"int:1", "int:0", "str:1", "str:0"}
IsStr(d) == d \in {"str:1", "str:0"}
\* direction arguments of scan
ScanDirs == {1, 0}

----------------------------------------------------------------------------
(* Arithmetic of the Python expressions *)

\* int(a / b) for b > 0: truncation toward zero
TruncDiv(a, b) == IF a >= 0 THEN a \div b ELSE -((-a) \div b)

\* round(a / b) for b > 0: nearest integer, ties to the even one
RoundDiv(a, b) ==
    LET q == a \div b
        r == a - q * b
    IN  IF 2 * r < b THEN q
        ELSE IF 2 * r > b THEN q + 1
        ELSE IF q % 2 = 0 THEN q ELSE q + 1

----------------------------------------------------------------------------
(* Frequency conversions *)

\* a variant of calculateByteFrequency that takes the nearest integer
calculateByteFrequency_round(s) ==
    LET frequency == RoundDiv(4 * (s.FMstation * 100000 + 225000),
                              s.crystalOscillatorFrequency)
    IN  [s EXCEPT !.upperFrequencyByte = frequency \div 256,
                  !.lowerFrequencyByte = frequency % 256]

\* calculateByteFrequency: the register pair from FMstation
calculateByteFrequency(s) ==
    LET frequency == TruncDiv(4 * (s.FMstation * 100000 + 225000),
                              s.crystalOscillatorFrequency)
    IN  [s EXCEPT !.upperFrequencyByte = frequency \div 256,
                  !.lowerFrequencyByte = frequency % 256]

\* calculateFrequency: FMstation from the register pair.
\* int(frequency*crystal/4 - 22500), then round(../100000), then
\* round((float(..)/10 - .2)*10)/10, which takes 2 tenths off.
calculateFrequency(s) ==
    LET frequency == s.upperFrequencyByte * 256 + s.lowerFrequencyByte
        hz == TruncDiv(frequency * s.crystalOscillatorFrequency - 90000, 4)
    IN  [s EXCEPT !.FMstation = RoundDiv(hz, 100000) - 2]

----------------------------------------------------------------------------
(* Register codec *)

\* readBytes: decode the five bytes of a read transaction
readBytes(s, results) ==
    calculateFrequency(
        [s EXCEPT !.readyFlag = IF (results[1] \div 128) % 2 = 1 THEN 1 ELSE 0,
                  !.bandLimitFlag = IF (results[1] \div 64) % 2 = 1 THEN 1 ELSE 0,
                  !.upperFrequencyByte = results[1] % 64,
                  !.lowerFrequencyByte = results[2],
                  !.stereoFlag = IF (results[3] \div 128) % 2 = 1 THEN 1 ELSE 0,
                  !.IFcounter = results[3] % 128,
                  !.levelADCoutput = results[4] \div 16,
                  !.chipID = 2 * ((results[4] \div 2) % 8)])

byteOne(s) ==
    (IF s.mute = 1 THEN 128 ELSE 0)
    + (IF s.searchMode = 1 THEN 64 ELSE 0)
    + s.upperFrequencyByte

byteTwo(s) == s.lowerFrequencyByte

\* self.SUD == 1 holds for the integer 1 only, never for a string
byteThree(s) ==
    (IF s.SUD = "int:1" THEN 128 ELSE 0)
    + s.searchStopLevel * 32
    + (IF s.HLSI = 1 THEN 16 ELSE 0)
    + (IF s.mono = 1 THEN 8 ELSE 0)
    + (IF s.muteRight = 1 THEN 4 ELSE 0)
    + (IF s.muteLeft = 1 THEN 2 ELSE 0)
    + (IF s.SWP1 = 1 THEN 1 ELSE 0)

byteFour(s) ==
    (IF s.SWP2 = 1 THEN 128 ELSE 0)
    + (IF s.standby = 1 THEN 64 ELSE 0)
    + (IF s.bandLimits = 1 THEN 32 ELSE 0)
    + (IF s.XTAL = 1 THEN 16 ELSE 0)
    + (IF s.softMute = 1 THEN 8 ELSE 0)
    + (IF s.HCC = 1 THEN 4 ELSE 0)
    + (IF s.SNC = 1 THEN 2 ELSE 0)
    + (IF s.SI = 1 THEN 1 ELSE 0)

byteFive(s) ==
    (IF s.PLL = 1 THEN 128 ELSE 0)
    + (IF s.DTC = 1 THEN 64 ELSE 0)

\* writeBytes: the five bytes handed to writing_bytes; the object after the
\* call is calculateByteFrequency(s)
writeBytes(s) ==
    LET t == calculateByteFrequency(s)
    IN  <<byteOne(t), byteTwo(t), byteThree(t), byteFour(t), byteFive(t)>>

----------------------------------------------------------------------------
(* The transport and the device behind it *)

\* writing_bytes accepts the bytes: each is in 0..255
Sendable(bytes) == \A k \in 1..5 : bytes[k] \in 0..255

\* the 14-bit frequency register a write transaction loads into the device
WrittenReg(bytes) == (bytes[1] % 64) * 256 + bytes[2]

\* the five bytes of a read: ready, register, level ADC output
DevReply(reg, ready, level) ==
    <<ready * 128 + reg \div 256, reg % 256, 0, level * 16, 0>>

\* the register value of a 0.1 MHz channel on a 32768 Hz crystal
ChannelReg(c) == (4 * (c * 100000 + 225000)) \div 32768

\* register values a free device reports: below the band, 90.0, 107.8,
\* 108.0 and the largest 14-bit value
FreeRegs == {0, ChannelReg(900), ChannelReg(1078), ChannelReg(1080), 16383}

\* register values an echo device holds at power-on: 100.0 and the largest
\* 14-bit value
EchoRegs == {ChannelReg(1000), 16383}

\* the sets of channels an echo device reports a strong signal on
StrongSets == {{}, {900, 1000}, {875, 900}}

\* what a read may return when the device's frequency register holds reg:
\* an echo device reports that register, ready, and the level of its channel;
\* weakOnly keeps a free device from reporting a strong signal
Replies(reg, weakOnly) ==
    IF devMode = "echo"
    THEN {DevReply(reg, 1,
                   IF \E c \in strong : ChannelReg(c) = reg THEN 5 ELSE 0)}
    ELSE {DevReply(r, rd, 0) : r \in FreeRegs, rd \in {0, 1}}
         \cup (IF weakOnly THEN {} ELSE {DevReply(ChannelReg(900), 0, 5)})

\* how a transaction may end: the bus of a free device may fail (FALSE)
Outcomes == IF devMode = "free" THEN {TRUE, FALSE} ELSE {TRUE}

NoWrite == [bytes |-> <<>>, FMstation |-> 0, mute |-> 0, searchMode |-> 0,
            upperFrequencyByte |-> 0]

----------------------------------------------------------------------------
(* Construction *)

\* the fields __init__ assigns before its read
Fields ==
    [crystalOscillatorFrequency |-> 32768, FMstation |-> 881,
     mute |-> 1, searchMode |-> 0,
     SUD |-> "int:1", searchStopLevel |-> 1, HLSI |-> 1, mono |-> 0,
     muteRight |-> 0, muteLeft |-> 0, SWP1 |-> 0,
     SWP2 |-> 0, standby |-> 0, bandLimits |-> 0, XTAL |-> 1,
     softMute |-> 0, HCC |-> 0, SNC |-> 0, SI |-> 0,
     PLL |-> 0, DTC |-> 0,
     readyFlag |-> 0, bandLimitFlag |-> 0, upperFrequencyByte |-> 0,
     lowerFrequencyByte |-> 0, stereoFlag |-> 0, IFcounter |-> 0,
     levelADCoutput |-> 0, chipID |-> 0]

\* __init__: the fields, then readBytes and calculateByteFrequency
Init ==
    /\ devMode \in {"free", "echo"}
    /\ devReg \in (IF devMode = "echo" THEN EchoRegs ELSE FreeRegs)
    /\ strong \in (IF devMode = "echo" THEN StrongSets ELSE {{}})
    /\ \E results \in Replies(devReg, FALSE) :
       \E r \in {readBytes(Fields, results)} :
          self = calculateByteFrequency(r)
    /\ pc = "idle"
    /\ op = "__init__"
    /\ result = ""
    /\ scan_i = FALSE
    /\ fadd = 0
    /\ telek = <<>>
    /\ lastWrite = NoWrite
    /\ startFM = self.FMstation
    /\ polls = 0
    /\ tuned = {}
    /\ retuned = FALSE
    /\ calls = 0
    /\ writes = 0
    /\ bus = <<"read">>

----------------------------------------------------------------------------
(* Operations *)

\* the bus log after a step of a loop: the event before the step, then the
\* events of the step
After(events) ==
    IF bus = <<>> THEN events ELSE <<bus[Len(bus)]>> \o events

\* the with-block of writeBytes for object s, whose writeBytes(s) is bytes,
\* in an operation that has issued n writes: the transaction, when
\* writing_bytes accepts the bytes and the bus does not fail (ok)
Transmit(s, bytes, ok, n) ==
    IF Sendable(bytes) /\ ok
    THEN /\ lastWrite' = [bytes |-> bytes, FMstation |-> s.FMstation,
                          mute |-> s.mute, searchMode |-> s.searchMode,
                          upperFrequencyByte |->
                              calculateByteFrequency(s).upperFrequencyByte]
         /\ devReg' = WrittenReg(bytes)
         /\ writes' = IF n < MaxWrites THEN n + 1 ELSE n
    ELSE /\ UNCHANGED <<lastWrite, devReg>>
         /\ writes' = n

\* what the with-block of writeBytes leaves on the bus
WriteEvents(bytes, ok) ==
    IF ~Sendable(bytes) THEN <<>> ELSE IF ok THEN <<"write">> ELSE <<"fail">>

\* how a call that ends with writeBytes ends
WriteResult(bytes, ok, outcome) ==
    IF ~Sendable(bytes) THEN "ValueError"
    ELSE IF ok THEN outcome ELSE "IOError"

\* a variant of raised in which the caller goes on after the exception
raised_and_swallowed(s, error) ==
    /\ self' = s
    /\ UNCHANGED <<pc, result>>

\* an exception leaves the operation, with the object as s: nothing in the
\* class catches it
raised(s, error) ==
    /\ self' = s
    /\ pc' = "idle"
    /\ result' = error

\* a public operation is called, on an object whose bus has not failed
Call(name) ==
    /\ pc = "idle"
    /\ result # "IOError"
    /\ calls < MaxCalls
    /\ calls' = calls + 1
    /\ op' = name
    /\ startFM' = self.FMstation
    /\ polls' = 0
    /\ UNCHANGED <<devMode, strong>>

\* on()
on ==
    /\ Call("on")
    /\ \E s \in {[self EXCEPT !.standby = 0, !.mute = 0]} :
       \E bytes \in {writeBytes(s)} :
       \E ok \in Outcomes :
          /\ Transmit(s, bytes, ok, 0)
          /\ bus' = WriteEvents(bytes, ok)
          /\ IF Sendable(bytes) /\ ok
             THEN /\ self' = calculateByteFrequency(s)
                  /\ result' = "radio on"
                  /\ UNCHANGED pc
             ELSE raised(calculateByteFrequency(s),
                         WriteResult(bytes, ok, ""))
    /\ UNCHANGED <<scan_i, fadd, telek, tuned, retuned>>

\* off()
off ==
    /\ Call("off")
    /\ \E s \in {[self EXCEPT !.standby = 1]} :
       \E bytes \in {writeBytes(s)} :
       \E ok \in Outcomes :
          /\ Transmit(s, bytes, ok, 0)
          /\ bus' = WriteEvents(bytes, ok)
          /\ IF Sendable(bytes) /\ ok
             THEN /\ self' = calculateByteFrequency(s)
                  /\ result' = "radio off"
                  /\ UNCHANGED pc
             ELSE raised(calculateByteFrequency(s),
                         WriteResult(bytes, ok, ""))
    /\ UNCHANGED <<scan_i, fadd, telek, tuned, retuned>>

\* start(), up to its loop
start ==
    /\ Call("start")
    /\ \E s \in {[calculateByteFrequency(self) EXCEPT
                     !.mute = 0, !.standby = 0, !.bandLimits = 0,
                     !.HCC = 1, !.SNC = 1, !.FMstation = StartStation]} :
       \E bytes \in {writeBytes(s)} :
       \E ok \in Outcomes :
          /\ Transmit(s, bytes, ok, 0)
          /\ bus' = WriteEvents(bytes, ok)
          /\ IF Sendable(bytes) /\ ok
             THEN /\ self' = [calculateByteFrequency(s) EXCEPT !.readyFlag = 0]
                  /\ pc' = "start"
                  /\ UNCHANGED result
             ELSE raised(calculateByteFrequency(s),
                         WriteResult(bytes, ok, ""))
    /\ UNCHANGED <<scan_i, fadd, telek, tuned, retuned>>

\* one pass of start's loop: readBytes, sleep, the loop test
start_loop ==
    /\ pc = "start"
    /\ \E ok \in Outcomes :
          IF ok
          THEN \E results \in Replies(devReg, FALSE) :
               \E r \in {readBytes(self, results)} :
                  /\ self' = r
                  /\ bus' = After(<<"read", "sleep">>)
                  /\ IF r.readyFlag = 0 /\ r.standby = 0
                     THEN UNCHANGED <<pc, result>>
                     ELSE pc' = "idle" /\ result' = "started"
          ELSE /\ raised(self, "IOError")
               /\ bus' = After(<<"fail">>)
    /\ polls' = IF polls < MaxPolls THEN polls + 1 ELSE polls
    /\ UNCHANGED <<op, scan_i, fadd, telek, devMode, devReg, strong,
                   lastWrite, startFM, tuned, retuned, calls, writes>>

\* search(dir), up to its loop; "Station search " + dir raises TypeError
\* unless dir is a string
search(dir) ==
    /\ Call("search")
    /\ \E s \in {[self EXCEPT !.readyFlag = 0, !.mute = 1, !.searchMode = 1,
                              !.SUD = dir]} :
       \E bytes \in {writeBytes(s)} :
       \E ok \in Outcomes :
          IF ~IsStr(dir)
          THEN /\ raised(s, "TypeError")
               /\ bus' = <<>>
               /\ writes' = 0
               /\ UNCHANGED <<lastWrite, devReg>>
          ELSE /\ Transmit(s, bytes, ok, 0)
               /\ bus' = WriteEvents(bytes, ok)
               /\ IF Sendable(bytes) /\ ok
                  THEN /\ self' = calculateByteFrequency(s)
                       /\ pc' = "search"
                       /\ UNCHANGED result
                  ELSE raised(calculateByteFrequency(s),
                              WriteResult(bytes, ok, ""))
    /\ UNCHANGED <<scan_i, fadd, telek, tuned, retuned>>

\* leaving search's loop with object s: the write, the sleep of the
\* not-found path, and the return
search_return(s, outcome) ==
    \E bytes \in {writeBytes(s)} :
    \E ok \in Outcomes :
       /\ Transmit(s, bytes, ok, writes)
       /\ bus' = After(<<"sleep", "read">> \o WriteEvents(bytes, ok)
                       \o (IF Sendable(bytes) /\ ok /\ outcome = "notfound"
                           THEN <<"sleep">> ELSE <<>>))
       /\ raised(calculateByteFrequency(s), WriteResult(bytes, ok, outcome))

\* a variant of search's band test that takes 108.0 MHz as in band
out_of_band_108(s) == s.FMstation < BandLow \/ s.FMstation > ScanWrapHigh

\* search's band test on the station frequency just read
out_of_band(s) == s.FMstation < BandLow \/ s.FMstation > BandHigh

\* one pass of search's loop: sleep, readBytes, the band test, the loop
\* test and, when the loop is left, the code after it
search_loop ==
    /\ pc = "search"
    /\ \E readOk \in Outcomes :
          IF readOk
          THEN \E results \in Replies(devReg, FALSE) :
               \E r \in {readBytes(self, results)} :
                  IF out_of_band(r)
                  THEN search_return([r EXCEPT !.searchMode = 0], "notfound")
                  ELSE IF r.readyFlag # 0
                  THEN search_return([r EXCEPT !.searchMode = 0, !.mute = 0],
                                     "found")
                  ELSE /\ self' = r
                       /\ bus' = After(<<"sleep", "read">>)
                       /\ UNCHANGED <<pc, result, lastWrite, devReg, writes>>
          ELSE /\ raised(self, "IOError")
               /\ bus' = After(<<"sleep", "fail">>)
               /\ UNCHANGED <<lastWrite, devReg, writes>>
    /\ polls' = IF polls < MaxPolls THEN polls + 1 ELSE polls
    /\ UNCHANGED <<op, scan_i, fadd, telek, devMode, strong, startFM,
                   tuned, retuned, calls>>

\* scan(direction), up to its loop
scan(direction) ==
    /\ Call("scan")
    /\ \E ok \in Outcomes :
          IF ok
          THEN \E results \in Replies(devReg, FALSE) :
               \E r \in {readBytes(self, results)} :
                  /\ self' = [calculateByteFrequency(r) EXCEPT
                                 !.FMstation = IF direction = 1
                                               THEN BandLow ELSE BandHigh]
                  /\ fadd' = IF direction = 1 THEN 1 ELSE -1
                  /\ telek' = <<>>
                  /\ pc' = "scan"
                  /\ bus' = <<"read">>
                  /\ UNCHANGED result
          ELSE /\ raised(self, "IOError")
               /\ bus' = <<"fail">>
               /\ UNCHANGED <<fadd, telek>>
    /\ scan_i' = FALSE
    /\ tuned' = {}
    /\ retuned' = FALSE
    /\ writes' = 0
    /\ UNCHANGED <<devReg, lastWrite>>

\* the station scan's loop writes next, from FMstation f: one step on,
\* wrapped to the other edge past a band edge
scan_step(f, step) ==
    IF f + step < BandLow THEN ScanWrapHigh
    ELSE IF f + step > BandHigh THEN BandLow
    ELSE f + step

\* the step from FMstation f leaves the band: scan sets i = True
scan_wrapped(f, step) == f + step < BandLow \/ f + step > BandHigh

\* the second half of a pass of scan's loop, with object w after the write:
\* sleep, readBytes, calculateByteFrequency, calculateFrequency, record
scan_read(w, results, wrapped) ==
    \E r1 \in {readBytes(w, results)} :
    \E r2 \in {calculateByteFrequency(r1)} :
    \E r \in {calculateFrequency(r2)} :
       /\ self' = r
       /\ telek' = IF r.levelADCoutput > StrongLevel
                   THEN Append(telek, [FMstation |-> r.FMstation,
                                       stereoFlag |-> r.stereoFlag,
                                       levelADCoutput |-> r.levelADCoutput])
                   ELSE telek
       /\ pc' = IF wrapped THEN "idle" ELSE "scan"
       /\ result' = IF wrapped THEN "scanned" ELSE result

\* one pass of scan's loop: step, wrap, write, sleep, read, record
scan_loop ==
    /\ pc = "scan"
    /\ \E wrapped \in {scan_wrapped(self.FMstation, fadd)} :
       \E s \in {[self EXCEPT !.FMstation = scan_step(self.FMstation, fadd)]} :
       \E bytes \in {writeBytes(s)} :
       \E w \in {calculateByteFrequency(s)} :
       \E ok \in Outcomes :
          /\ Transmit(s, bytes, ok, writes)
          /\ scan_i' = wrapped
          /\ IF ~(Sendable(bytes) /\ ok)
             THEN /\ raised(w, WriteResult(bytes, ok, ""))
                  /\ bus' = After(WriteEvents(bytes, ok))
                  /\ UNCHANGED <<telek, tuned, retuned>>
             ELSE /\ tuned' = tuned \cup {s.FMstation}
                  /\ retuned' = (retuned \/ s.FMstation \in tuned)
                  /\ \E readOk \in Outcomes :
                        IF readOk
                        THEN /\ \E results \in
                                   Replies(WrittenReg(bytes),
                                           Len(telek) >= MaxLines) :
                                   scan_read(w, results, wrapped)
                             /\ bus' = After(<<"write", "sleep", "read">>)
                        ELSE /\ raised(w, "IOError")
                             /\ bus' = After(<<"write", "sleep", "fail">>)
                             /\ UNCHANGED telek
    /\ UNCHANGED <<op, fadd, devMode, strong, startFM, polls, calls>>

Next ==
    \/ on
    \/ off
    \/ start
    \/ start_loop
    \/ \E dir \in SearchDirs : search(dir)
    \/ search_loop
    \/ \E direction \in ScanDirs : scan(direction)
    \/ scan_loop

Spec == Init /\ [][Next]_vars

\* the interpreter keeps running a loop it is in
FairSpec ==
    Spec /\ WF_vars(start_loop) /\ WF_vars(search_loop) /\ WF_vars(scan_loop)

----------------------------------------------------------------------------
(* The frequency conversions on their own *)

\* the clock frequencies of table 2
Crystal32k == 32768
Crystal6M5 == 6500000
Crystal13M == 13000000
Crystals == {Crystal32k, Crystal6M5, Crystal13M}

\* an object with clock frequency x and the clock bits __init__ derives
\* from it, at station f
WithCrystal(x, f) ==
    [Fields EXCEPT !.crystalOscillatorFrequency = x,
                   !.XTAL = IF x = Crystal32k THEN 1 ELSE 0,
                   !.PLL = IF x = Crystal6M5 THEN 1 ELSE 0,
                   !.FMstation = f]

\* an object of each clock frequency at each channel of the band, no
\* transaction made
ConvInit ==
    /\ \E x \in Crystals : \E f \in Band : self = WithCrystal(x, f)
    /\ startFM = self.FMstation
    /\ pc = "station"
    /\ op = "calculateFrequency"
    /\ result = ""
    /\ devMode = "free"
    /\ devReg = 0
    /\ strong = {}
    /\ scan_i = FALSE
    /\ fadd = 0
    /\ telek = <<>>
    /\ lastWrite = NoWrite
    /\ polls = 0
    /\ tuned = {}
    /\ retuned = FALSE
    /\ calls = 0
    /\ writes = 0
    /\ bus = <<>>

\* calculateByteFrequency() on the object
conv_calculateByteFrequency ==
    /\ pc = "station"
    /\ calls < MaxCalls
    /\ self' = calculateByteFrequency(self)
    /\ pc' = "registers"
    /\ op' = "calculateByteFrequency"
    /\ calls' = calls + 1
    /\ UNCHANGED <<result, scan_i, fadd, telek, devMode, devReg, strong,
                   lastWrite, startFM, polls, tuned, retuned, writes, bus>>

\* calculateFrequency() on the registers just computed
conv_calculateFrequency ==
    /\ pc = "registers"
    /\ self' = calculateFrequency(self)
    /\ pc' = "station"
    /\ op' = "calculateFrequency"
    /\ UNCHANGED <<result, scan_i, fadd, telek, devMode, devReg, strong,
                   lastWrite, startFM, polls, tuned, retuned, calls, writes,
                   bus>>

ConvNext == conv_calculateByteFrequency \/ conv_calculateFrequency

ConvSpec == ConvInit /\ [][ConvNext]_vars

----------------------------------------------------------------------------
(* Repeated runs of the program against one device *)

\* the values of the 14-bit frequency register
Registers == 0..16383

\* the first run has constructed its object on an echo device whose
\* register holds any 14-bit value
CycleInit ==
    /\ devMode = "echo"
    /\ devReg \in Registers
    /\ strong = {}
    /\ \E results \in Replies(devReg, FALSE) :
       \E r \in {readBytes(Fields, results)} :
          self = calculateByteFrequency(r)
    /\ pc = "idle"
    /\ op = "__init__"
    /\ result = ""
    /\ scan_i = FALSE
    /\ fadd = 0
    /\ telek = <<>>
    /\ lastWrite = NoWrite
    /\ startFM = self.FMstation
    /\ polls = 0
    /\ tuned = {}
    /\ retuned = FALSE
    /\ calls = 0
    /\ writes = 0
    /\ bus = <<"read">>

\* the program is run again after its operation has ended: tea5767()
\* constructs a new object from a read of the device as the last run left it
tea5767 ==
    /\ pc = "idle"
    /\ calls > 0
    /\ \E results \in Replies(devReg, FALSE) :
       \E r \in {calculateByteFrequency(readBytes(Fields, results))} :
          /\ self' = r
          /\ startFM' = r.FMstation
    /\ op' = "__init__"
    /\ result' = ""
    /\ polls' = 0
    /\ calls' = 0
    /\ writes' = 0
    /\ bus' = <<"read">>
    /\ UNCHANGED <<pc, scan_i, fadd, telek, devMode, devReg, strong,
                   lastWrite, tuned, retuned>>

CycleNext == on \/ tea5767

CycleSpec == CycleInit /\ [][CycleNext]_vars

TypeOK ==
    /\ pc \in {"idle", "start", "search", "scan"}
    /\ polls \in 0..MaxPolls
    /\ calls \in 0..MaxCalls
    /\ writes \in 0..MaxWrites
    /\ self.upperFrequencyByte \in 0..64
    /\ self.lowerFrequencyByte \in 0..255

----------------------------------------------------------------------------
(* Properties *)

\* bit k of byte b
Bit(b, k) == (b \div (2 ^ k)) % 2

\* search has returned from its loop
SearchReturned ==
    op = "search" /\ pc = "idle" /\ result \in {"found", "notfound"}

\* scan has returned
ScanReturned == op = "scan" /\ pc = "idle" /\ result = "scanned"

\* C1: a search called with the tuner at 107.8 MHz ends with its first
\* poll while the device reports not ready: it is never still in its loop
\* after a poll, whatever frequency the poll reported.
C1_SearchEndsInOnePoll ==
    (op = "search" /\ startFM = 1078 /\ pc = "search") => polls = 0

\* C2: scan terminates, whatever the device replies: once in its loop it
\* leaves it.
C2_ScanTerminates == (pc = "scan") ~> (pc = "idle")

\* C3: every write transaction carries frequency bytes computed from a
\* station frequency within 87.5..107.9 MHz.
C3_WritesInBand ==
    lastWrite.bytes # <<>> => lastWrite.FMstation \in Band

\* C4: with a device that reads back the register last written, a scan in
\* either direction has tuned to every channel of 87.5..107.9 exactly once
\* and to nothing else when it returns.
C4_ScanCoversBand ==
    (ScanReturned /\ devMode = "echo") => (tuned = Band /\ ~retuned)

\* C5: with a device that reads back the register last written, the
\* stations scan(Up) has recorded when it returns are the channels with a
\* level above 4, each once, in strictly ascending order.
C5_ScanUpRecordsAscending ==
    (ScanReturned /\ devMode = "echo" /\ fadd = 1) =>
        /\ {telek[k].FMstation : k \in 1..Len(telek)} = strong
        /\ Len(telek) = Cardinality(strong)
        /\ \A k \in 1..(Len(telek) - 1) :
              telek[k].FMstation < telek[k + 1].FMstation

\* C6: when scan returns, the station frequency of the controller is the
\* one it held when scan was called.
C6_ScanKeepsStation == ScanReturned => self.FMstation = startFM

C8_LastWriteLeavesSearchMode ==
    SearchReturned =>
        /\ Bit(lastWrite.bytes[1], 6) = 0
        /\ result = "found" => Bit(lastWrite.bytes[1], 7) = 0

\* C9: start terminates: once in its polling loop it leaves it, also when
\* the device never reports ready.
C9_StartTerminates == (pc = "start") ~> (pc = "idle")

\* C10: in every write transaction the five bytes are in 0..255 and the
\* first byte holds mute in bit 7, searchMode in bit 6 and the upper
\* frequency value, at most 0x3F, in bits 5..0.
C10_ByteOnePacked ==
    lastWrite.bytes # <<>> =>
        /\ \A k \in 1..5 : lastWrite.bytes[k] \in 0..255
        /\ Bit(lastWrite.bytes[1], 7) = lastWrite.mute
        /\ Bit(lastWrite.bytes[1], 6) = lastWrite.searchMode
        /\ lastWrite.bytes[1] % 64 = lastWrite.upperFrequencyByte
        /\ lastWrite.upperFrequencyByte <= 63

\* an operation has run to its end: it left by none of the exceptions
Completed == pc = "idle" /\ result \notin {"TypeError", "ValueError", "IOError"}

\* C11: when a public operation has completed, the two register fields are
\* those of the station frequency: (upperFrequencyByte << 8) +
\* lowerFrequencyByte is the register value calculateByteFrequency computes
\* from FMstation, whatever register value the device reported.
C11_RegistersMatchStation ==
    Completed =>
        /\ calculateByteFrequency(self).upperFrequencyByte
              = self.upperFrequencyByte
        /\ calculateByteFrequency(self).lowerFrequencyByte
              = self.lowerFrequencyByte

\* the register value in the two register fields
Register(s) == s.upperFrequencyByte * 256 + s.lowerFrequencyByte

\* calculateFrequency has just converted back the registers that
\* calculateByteFrequency computed from station startFM
ConvertedBack == op = "calculateFrequency" /\ calls > 0

\* C12: for every channel f of 87.5..107.9 MHz and each clock frequency of
\* 32768, 6500000 and 13000000 Hz, calculateByteFrequency followed by
\* calculateFrequency gives a station frequency within 0.1 MHz of f.
C12_RoundTripWithinOneStep ==
    (ConvertedBack /\ calls = 1) =>
        /\ self.FMstation - startFM <= 1
        /\ startFM - self.FMstation <= 1

\* C13: the register value calculateByteFrequency stores is the integer
\* nearest to 4 * (FMstation * 1000000 + 225000) / crystal, not the
\* truncated quotient, with its bits above the low eight in
\* upperFrequencyByte and its low eight bits in lowerFrequencyByte.
C13_RegisterIsNearest ==
    op = "calculateByteFrequency" =>
        /\ Register(self) = RoundDiv(4 * (self.FMstation * 100000 + 225000),
                                     self.crystalOscillatorFrequency)
        /\ self.upperFrequencyByte = Register(self) \div 256
        /\ self.lowerFrequencyByte = Register(self) % 256

\* C13, amended: the register value is the quotient truncated to an
\* integer: the largest n with n * crystal <= 4 * (FMstation * 1000000 +
\* 225000); upperFrequencyByte is n >> 8 and lowerFrequencyByte n & 0xFF.
C13_RegisterIsTruncated ==
    op = "calculateByteFrequency" =>
        /\ Register(self) * self.crystalOscillatorFrequency
              <= 4 * (self.FMstation * 100000 + 225000)
        /\ (Register(self) + 1) * self.crystalOscillatorFrequency
              > 4 * (self.FMstation * 100000 + 225000)
        /\ self.upperFrequencyByte = Register(self) \div 256
        /\ self.lowerFrequencyByte = Register(self) % 256

\* calculateByteFrequency has converted 87.5 MHz with the 32768 Hz clock:
\* the quotient is 10708.6.. and the register is 10708
C13_Witness ==
    /\ op = "calculateByteFrequency"
    /\ self.crystalOscillatorFrequency = Crystal32k
    /\ self.FMstation = BandLow
    /\ Register(self) = 10708
    /\ RoundDiv(4 * (BandLow * 100000 + 225000), Crystal32k) = 10709

\* C14: for each of the three clock frequencies the register value is
\* strictly increasing over the channels: the register of a channel is
\* below the register of the next channel up.
C14_RegisterIncreasing ==
    (op = "calculateByteFrequency" /\ self.FMstation < BandHigh) =>
        Register(self) <
            Register(calculateByteFrequency(
                         [self EXCEPT !.FMstation = self.FMstation + 1]))

\* C15: search sets the direction from its argument before its first
\* write, for the integers 1 and 0 and for the strings of the command
\* line alike: the call makes a first write, and that write has bit 7 of
\* its third byte set exactly when the argument asks for Up, and bits 7
\* and 6 of its first byte (mute, searchMode) set.
C15_FirstWriteCarriesDirection ==
    /\ (op = "search" /\ pc = "search" /\ polls = 0) =>
          /\ Bit(lastWrite.bytes[3], 7) = 1 <=> self.SUD \in {"int:1", "str:1"}
          /\ Bit(lastWrite.bytes[1], 7) = 1
          /\ Bit(lastWrite.bytes[1], 6) = 1
    /\ (op = "search" /\ pc = "idle" /\ polls = 0) => result # "TypeError"

\* C16: within an operation no read transaction directly follows a write
\* transaction: a sleep lies between a write and the next read, in start,
\* search and scan alike.
C16_SleepBetweenWriteAndRead ==
    \A k \in 1..(Len(bus) - 1) : bus[k] = "write" => bus[k + 1] # "read"

\* C17: a transaction that fails is the last one of its operation: the
\* operation ends there with the transport error, the failed transaction
\* is not repeated and no loop goes on after it.
C17_FailureEndsOperation ==
    \A k \in 1..Len(bus) :
        bus[k] = "fail" =>
            /\ k = Len(bus)
            /\ pc = "idle"
            /\ result = "IOError"

\* a read of scan's loop has failed after a write of the same pass
C17_Witness ==
    /\ op = "scan"
    /\ result = "IOError"
    /\ writes > 0
    /\ Len(bus) > 1
    /\ bus[Len(bus)] = "fail"
    /\ bus[Len(bus) - 1] = "sleep"

\* C18: a search call on a working bus makes exactly two write
\* transactions, one before its first poll and one when it ends; it makes
\* none between polls: while it polls it has made one write, and when it
\* has ended it has made two.
C18_SearchWritesTwice ==
    op = "search" =>
        /\ pc = "search" => writes = 1
        /\ (pc = "idle" /\ result # "IOError") => writes = 2

\* the register values calculateByteFrequency gives the channels of the band
ChannelRegs == {ChannelReg(c) : c \in Band}

\* C19: with the 32768 Hz clock, reading the device and writing back is
\* stable for every 14-bit register value the device holds at first: once
\* a run has written a register value, a later run that reads it and
\* writes leaves the same value in the device; and a first run that reads
\* the register value of a channel of the band writes that value.
C19_ReadWriteStable ==
    [][(op = "__init__" /\ op' = "on") =>
           /\ lastWrite.bytes # <<>> => devReg' = devReg
           /\ devReg \in ChannelRegs => devReg' = devReg]_vars

====
